---- MODULE Spec2Model ----
(***************************************************************************)
(* The message-streaming relay of clone-gpt: the conversation store, the   *)
(* two exchange endpoints (stream and simulate-stream), the upstream chunk *)
(* decoder, the title derivation and the client-side reducer (useChat).    *)
(*                                                                         *)
(* Text is a sequence of one-character strings, so that trim, split, join, *)
(* startsWith and slice are computed as the code computes them.            *)
(***************************************************************************)
EXTENDS Integers, Sequences, FiniteSets, TLC

(***************************************************************************)
(* Text helpers (JavaScript String methods used by the routes)             *)
(***************************************************************************)

Whitespace == {" ", "\n", "\r", "\t"}

Min(a, b) == IF a < b THEN a ELSE b

RECURSIVE TrimLeft(_)
TrimLeft(s) ==
  IF s # <<>> /\ Head(s) \in Whitespace THEN TrimLeft(Tail(s)) ELSE s

RECURSIVE TrimRight(_)
TrimRight(s) ==
  IF s # <<>> /\ s[Len(s)] \in Whitespace
    THEN TrimRight(SubSeq(s, 1, Len(s) - 1))
    ELSE s

\* String.prototype.trim
Trim(s) == TrimRight(TrimLeft(s))

\* index of the first occurrence of character c in s, 0 when there is none
IndexOf(s, c) ==
  IF \E i \in 1..Len(s) : s[i] = c
    THEN CHOOSE i \in 1..Len(s) : s[i] = c /\ \A j \in 1..(i - 1) : s[j] # c
    ELSE 0

\* String.prototype.split on a one-character separator: empty fields are kept
RECURSIVE Split(_, _)
Split(s, sep) ==
  LET i == IndexOf(s, sep) IN
  IF i = 0 THEN <<s>>
  ELSE <<SubSeq(s, 1, i - 1)>> \o Split(SubSeq(s, i + 1, Len(s)), sep)

\* Array.prototype.join with separator text sep
RECURSIVE Join(_, _)
Join(parts, sep) ==
  IF parts = <<>> THEN <<>>
  ELSE IF Len(parts) = 1 THEN parts[1]
  ELSE parts[1] \o sep \o Join(Tail(parts), sep)

\* Array.prototype.slice(0, n) and String.prototype.substring(0, n)
Slice(s, n) == SubSeq(s, 1, Min(n, Len(s)))

\* String.prototype.startsWith
StartsWith(s, p) == Len(s) >= Len(p) /\ SubSeq(s, 1, Len(p)) = p

\* concatenation of a sequence of texts
RECURSIVE Concat(_)
Concat(parts) == IF parts = <<>> THEN <<>> ELSE Head(parts) \o Concat(Tail(parts))

Last(s) == s[Len(s)]

(***************************************************************************)
(* Title derivation                                                        *)
(***************************************************************************)

TitleWords == 6
TitleMax == 50
TitleCut == 47
Ellipsis == <<".", ".", ".">>

TitleOf_cut48(message) ==
  LET firstWords == Join(Slice(Split(Trim(message), " "), TitleWords), <<" ">>) IN
  IF Len(firstWords) > TitleMax
    THEN Slice(firstWords, TitleCut + 1) \o Ellipsis
    ELSE firstWords

\* message.trim().split(' ').slice(0, 6).join(' '), cut to 47 + '...' over 50
TitleOf(message) ==
  LET firstWords == Join(Slice(Split(Trim(message), " "), TitleWords), <<" ">>) IN
  IF Len(firstWords) > TitleMax
    THEN Slice(firstWords, TitleCut) \o Ellipsis
    ELSE firstWords

(***************************************************************************)
(* Chunk decoder of the stream route                                       *)
(***************************************************************************)

DataPrefix == <<"d", "a", "t", "a", ":", " ">>
Sentinel == <<"[", "D", "O", "N", "E", "]">>

\* characters a content increment is made of
ContentChars == {"x", "y", "z"}

\* JSON.parse(data) followed by parsed.choices?.[0]?.delta?.content.
\* A well-formed record is written { c1 .. cn }: "{" stands for the text up
\* to the content value, "}" for the text after it; n = 0 is a record with
\* no (or an empty) content field.  Any other payload makes JSON.parse throw.
ParseRecord(data) ==
  IF /\ Len(data) >= 2
     /\ data[1] = "{"
     /\ data[Len(data)] = "}"
     /\ \A i \in 2..(Len(data) - 1) : data[i] \in ContentChars
    THEN [ok |-> TRUE, content |-> SubSeq(data, 2, Len(data) - 1)]
    ELSE [ok |-> FALSE, content |-> <<>>]

\* one iteration of `for (const line of lines)`: the increments the line
\* yields (none or one) and whether an exception leaves the loop body
DecodeLine(line) ==
  IF ~StartsWith(line, DataPrefix) THEN [incs |-> <<>>, threw |-> FALSE]
  ELSE LET data == Trim(SubSeq(line, Len(DataPrefix) + 1, Len(line))) IN
       IF data = Sentinel \/ data = <<>> THEN [incs |-> <<>>, threw |-> FALSE]
       ELSE LET parsed == ParseRecord(data) IN
            IF parsed.ok /\ parsed.content # <<>>
              THEN [incs |-> <<parsed.content>>, threw |-> FALSE]
              ELSE [incs |-> <<>>, threw |-> FALSE]

\* the lines of one read, decoded in order; stops at a line that throws
RECURSIVE DecodeLines(_)
DecodeLines(lines) ==
  IF lines = <<>> THEN [incs |-> <<>>, threw |-> FALSE]
  ELSE LET h == DecodeLine(Head(lines)) IN
       IF h.threw THEN h
       ELSE LET t == DecodeLines(Tail(lines)) IN
            [incs |-> h.incs \o t.incs, threw |-> t.threw]

\* chunk.split('\n') and the loop over the lines of one read
DecodeChunk(chunk) == DecodeLines(Split(chunk, "\n"))

(***************************************************************************)
(* Fixed texts of the routes                                               *)
(***************************************************************************)

\* stream route: substituted when the upstream stream yielded no content
FallbackNotice ==
  <<"I", " ", "r", "e", "c", "e", "i", "v", "e", "d", " ", "y", "o", "u",
    "r", " ", "m", "e", "s", "s", "a", "g", "e", " ", "b", "u", "t", " ",
    "t", "h", "e", "r", "e", " ", "w", "a", "s", " ", "a", "n", " ", "i",
    "s", "s", "u", "e", " ", "w", "i", "t", "h", " ", "t", "h", "e", " ",
    "s", "t", "r", "e", "a", "m", "i", "n", "g", " ", "r", "e", "s", "p",
    "o", "n", "s", "e", ".", " ", "P", "l", "e", "a", "s", "e", " ", "t",
    "r", "y", " ", "a", "g", "a", "i", "n", ".">>

\* both routes: `|| 'Sorry, I could not generate a response.'`
NoResponseNotice ==
  <<"S", "o", "r", "r", "y", ",", " ", "I", " ", "c", "o", "u", "l", "d",
    " ", "n", "o", "t", " ", "g", "e", "n", "e", "r", "a", "t", "e", " ",
    "a", " ", "r", "e", "s", "p", "o", "n", "s", "e", ".">>

\* content of the assistant message the catch block persists
ErrorText ==
  <<"S", "o", "r", "r", "y", ",", " ", "I", " ", "e", "n", "c", "o", "u",
    "n", "t", "e", "r", "e", "d", " ", "a", "n", " ", "e", "r", "r", "o",
    "r", " ", "w", "h", "i", "l", "e", " ", "p", "r", "o", "c", "e", "s",
    "s", "i", "n", "g", " ", "y", "o", "u", "r", " ", "m", "e", "s", "s",
    "a", "g", "e", ".", " ", "P", "l", "e", "a", "s", "e", " ", "t", "r",
    "y", " ", "a", "g", "a", "i", "n", ".">>

\* the `error` field of the error event
ErrorClass == "AI service temporarily unavailable"

(***************************************************************************)
(* Attachments: POST /api/files/process and the context message of the     *)
(* simulate-stream route                                                   *)
(***************************************************************************)

\* String.prototype.includes
Includes(s, p) ==
  \E i \in 1..(Len(s) - Len(p) + 1) : SubSeq(s, i, i + Len(p) - 1) = p

TextPlain == <<"t", "e", "x", "t", "/", "p", "l", "a", "i", "n">>
AppJson == <<"a", "p", "p", "l", "i", "c", "a", "t", "i", "o", "n", "/", "j", "s",
    "o", "n">>
ImagePng == <<"i", "m", "a", "g", "e", "/", "p", "n", "g">>
AppPdf == <<"a", "p", "p", "l", "i", "c", "a", "t", "i", "o", "n", "/", "p", "d",
    "f">>
AppZip == <<"a", "p", "p", "l", "i", "c", "a", "t", "i", "o", "n", "/", "z", "i",
    "p">>

\* an uploaded file: its name, its media type and the text its data decode to
UploadedFile(name, mimeType, text) ==
  [name |-> name, mimeType |-> mimeType, text |-> text, textContent |-> <<>>]

\* the kinds the file processor extracts text from
IsTextType(mimeType) ==
  StartsWith(mimeType, <<"t", "e", "x", "t", "/">>)
    \/ Includes(mimeType, <<"j", "s", "o", "n">>)

\* one file of POST /api/files/process: the textContent given to it
ProcessFile(file) ==
  [file EXCEPT !.textContent =
     IF IsTextType(file.mimeType) THEN file.text
     ELSE IF StartsWith(file.mimeType, <<"i", "m", "a", "g", "e", "/">>)
       THEN <<"[", "I", "m", "a", "g", "e", ":", " ">>
              \o file.name \o <<"]">>
     ELSE IF file.mimeType = AppPdf
       THEN <<"[", "P", "D", "F", " ", "D", "o", "c", "u", "m", "e", "n",
              "t", ":", " ">>
              \o file.name \o <<"]">>
     ELSE <<"[", "F", "i", "l", "e", ":", " ">> \o file.name
            \o <<" ", "-", " ">> \o file.mimeType \o <<"]">>]

ProcessFiles(files) == [i \in 1..Len(files) |-> ProcessFile(files[i])]

FileLabel == <<"F", "i", "l", "e", ":", " ">>
ContentLabel == <<"\n", "C", "o", "n", "t", "e", "n", "t", ":", " ">>
BlockOpen ==
  <<"\n", "\n", "[", "U", "s", "e", "r", " ", "h", "a", "s", " ", "a", "t",
    "t", "a", "c", "h", "e", "d", " ", "t", "h", "e", " ", "f", "o", "l",
    "l", "o", "w", "i", "n", "g", " ", "f", "i", "l", "e", "s", ":", "\n">>
BlockClose == <<"]">>

\* one entry of fileDescriptions
FileDescription(file) ==
  IF file.textContent # <<>> /\ ~StartsWith(file.textContent, <<"[">>)
    THEN FileLabel \o file.name \o ContentLabel \o file.textContent
    ELSE FileLabel \o file.name \o <<" ", "(">> \o file.mimeType \o <<")">>

\* aiContextMessage: the content of the last message sent upstream
AiContextMessage(message, files) ==
  IF files # <<>>
    THEN Trim(message) \o BlockOpen
           \o Join([i \in 1..Len(files) |-> FileDescription(files[i])],
                   <<"\n", "\n">>)
           \o BlockClose
    ELSE Trim(message)

(***************************************************************************)
(* Bounds and input sets                                                   *)
(***************************************************************************)

\* conversations ever created
MaxChats == 1

\* exchange requests ever accepted
MaxExchanges == 2

\* exchange requests accepted while the other endpoints are exercised too
MaxApiExchanges == 1

Owners == {"A", "B"}
NoUser == "none"
Callers == Owners \cup {NoUser}
ChatIds == 1..MaxChats

\* request handlers that may be in flight at once
Slots == {1, 2}
Routes == {"stream", "sim"}

Newline == <<"\n">>
Frame(content) == DataPrefix \o <<"{">> \o content \o <<"}">> \o Newline \o Newline
DoneFrame == DataPrefix \o Sentinel \o Newline \o Newline
BadFrame == DataPrefix \o <<"n", "o", "t", "-", "j", "s", "o", "n">> \o Newline \o Newline
RoleFrame == Frame(<<>>)

\* request bodies of the exchange endpoint: text that needs trimming and
\* whitespace only
Messages == {<<" ", "h", "i", " ">>, <<" ">>}

\* titles sent to POST /api/chats
Titles == {<<"N", "e", "w">>, <<>>}

\* upstream bodies of the stream route
Upstreams == {<<>>, Frame(<<"x">>)}

\* frames per upstream body when the decoder is exercised
MaxFrames == 3

FrameKinds == {Frame(<<"x">>), Frame(<<"y">>), BadFrame, RoleFrame, DoneFrame}

\* upstream bodies of up to MaxFrames frames
DecodeInputs ==
  {Concat(fs) : fs \in UNION {[1..k -> FrameKinds] : k \in 0..MaxFrames}}

\* files of a request body: none, or one processed file
Attachments ==
  {<<>>, ProcessFiles(<<UploadedFile(<<"f">>, TextPlain, <<"x">>)>>)}

\* files per request when the context message is exercised
MaxFiles == 2

\* texts a text file decodes to: plain, starting with a bracket, empty
Bodies == {<<"x">>, <<"[", "x", "]">>, <<>>}

UploadedFiles ==
  {UploadedFile(<<"a">>, m, b) : m \in {TextPlain, AppJson}, b \in Bodies}
    \cup {UploadedFile(<<"a">>, m, <<"x">>) : m \in {ImagePng, AppPdf, AppZip}}

\* uploads of up to MaxFiles files
FileLists == UNION {[1..k -> UploadedFiles] : k \in 0..MaxFiles}

\* status codes and bodies of an upstream error response
ErrorStatuses == {400, 429, 500}
ErrorBodies == {<<>>, <<"x">>, <<"k", "e", "y">>}

\* choices[0].message.content of the simulate-stream route (<<>>: missing)
SimReplies == {<<>>, <<"x", " ", "y">>}

(***************************************************************************)
(* State                                                                   *)
(***************************************************************************)

VARIABLES
  store,     \* the Chat collection: id -> [userId, title, messages]
  created,   \* every id ever created -> the userId it was created for
  req,       \* per handler slot: the exchange request being served
  actor,     \* the userId of the request the last step was taken for
  started,   \* exchange requests accepted so far
  chat,      \* useChat: the ChatData shown, or NoChatData
  sending,   \* useChat: the sending flag
  error,     \* useChat: the error state
  call,      \* useChat: the sendMessage/editMessage call in progress
  late       \* useChat: a sendMessage call started by the window event

svars == <<store, created, req, actor, started>>
cvars == <<chat, sending, error, call, late>>
vars == <<store, created, req, actor, started, chat, sending, error, call, late>>

Msg(role, content, stamp) ==
  [role |-> role, content |-> content, timestamp |-> stamp]
NoMsg == Msg("none", <<>>, "none")

\* one record of the event stream (fields a type does not carry are empty)
Event(type, message, content, title, err) ==
  [type |-> type, message |-> message, content |-> content,
   chatTitle |-> title, error |-> err]
UserEvent(m) == Event("userMessage", m, <<>>, <<>>, "")
ChunkEvent(c) == Event("chunk", NoMsg, c, <<>>, "")
CompleteEvent(m, title) == Event("complete", m, <<>>, title, "")
ErrorEvent(m) == Event("error", m, <<>>, <<>>, ErrorClass)

NoDoc == [userId |-> NoUser, title |-> <<>>, messages |-> <<>>]

IdleReq ==
  [pc |-> "idle", route |-> "none", userId |-> NoUser, chatId |-> 0,
   message |-> <<>>, doc |-> NoDoc, events |-> <<>>, fullResponse |-> <<>>,
   upstream |-> <<>>, body |-> <<>>, aligned |-> TRUE, words |-> <<>>,
   connected |-> TRUE, closed |-> FALSE, base |-> 0, saves |-> 0,
   saved |-> NoDoc, cause |-> "none", yielded |-> FALSE,
   files |-> <<>>, status |-> 0, context |-> <<>>,
   diag |-> [status |-> 0, body |-> <<>>]]

(***************************************************************************)
(* Conversation store                                                      *)
(***************************************************************************)

FindOwned_anyOwner(c, userId) == {d \in DOMAIN store : d = c}

\* Chat.findOne({ _id: chatId, userId }): the matching ids (none or one)
FindOwned(c, userId) ==
  {d \in DOMAIN store : d = c /\ store[d].userId = userId}

\* a save that adds the last two messages of the document to the stored list
StoreSave_pushOnly(c, doc) ==
  [store EXCEPT ![c] =
     [doc EXCEPT !.messages =
        store[c].messages \o SubSeq(doc.messages, Len(doc.messages) - 1,
                                    Len(doc.messages))]]

\* chat.save() of a loaded document: the whole document is written
StoreSave(c, doc) == [store EXCEPT ![c] = doc]

\* the collection without document c
StoreRemove(c) == [d \in DOMAIN store \ {c} |-> store[d]]

(***************************************************************************)
(* Exchange endpoints: POST /api/chats/[chatId]/stream and                 *)
(* POST /api/chats/[chatId]/simulate-stream                                *)
(***************************************************************************)

InFlight == {"fetch", "reading", "words", "save", "catchsave"}

\* controller.enqueue(e): appended to the response stream.  Callers test
\* r.connected first: enqueue on a stream the caller cancelled throws.
Enqueue(r, e) == [r EXCEPT !.events = Append(@, e)]

Catch_verbatim(r, why) ==
  [r EXCEPT !.doc.messages = Append(@, Msg("assistant", r.diag.body, "server")),
            !.pc = "catchsave",
            !.cause = IF @ = "none" THEN why ELSE @]

Catch_noMessage(r, why) ==
  [r EXCEPT !.pc = "catchsave",
            !.cause = IF @ = "none" THEN why ELSE @]

\* the catch block up to its `await chat.save()`
Catch(r, why) ==
  [r EXCEPT !.doc.messages = Append(@, Msg("assistant", ErrorText, "server")),
            !.pc = "catchsave",
            !.cause = IF @ = "none" THEN why ELSE @]

\* assistantMessage, chat.messages.push, the title update; then chat.save()
Finalize(r) ==
  LET content == IF r.fullResponse # <<>> THEN r.fullResponse ELSE NoResponseNotice
      msgs == Append(r.doc.messages, Msg("assistant", content, "server"))
  IN [r EXCEPT !.doc.messages = msgs,
               !.doc.title = IF Len(msgs) = 2 THEN TitleOf(r.message) ELSE @,
               !.pc = "save"]

\* the handler up to the first await of start(): the entry checks, the
\* lookup, the user message pushed on the loaded document and enqueued
Accepted(s, caller, c, m, route) ==
  LET userMessage == Msg("user", Trim(m), "server")
      doc == [store[c] EXCEPT !.messages = Append(@, userMessage)]
  IN [IdleReq EXCEPT !.pc = "fetch", !.route = route, !.userId = caller,
                     !.chatId = c, !.message = m, !.doc = doc,
                     !.events = <<UserEvent(userMessage)>>,
                     !.base = Len(store[c].messages),
                     !.context = Trim(m)]

\* the same with the files of the request body, which the simulate-stream
\* route describes in the context message and the stream route never reads
WithFiles(r, files) ==
  [r EXCEPT !.files = files,
            !.context = IF r.route = "sim"
                          THEN AiContextMessage(r.message, files) ELSE @]

PostStatus_lookupFirst(caller, c, m) ==
  IF caller = NoUser THEN 401
  ELSE IF FindOwned(c, caller) = {} THEN 404
  ELSE IF Trim(m) = <<>> THEN 400
  ELSE 200

PostStatus(caller, c, m) ==
  IF caller = NoUser THEN 401
  ELSE IF Trim(m) = <<>> THEN 400
  ELSE IF FindOwned(c, caller) = {} THEN 404
  ELSE 200

Post(s, caller, c, m, route) ==
  /\ req[s].pc = "idle"
  /\ started < MaxExchanges
  /\ actor' = caller
  /\ IF PostStatus(caller, c, m) = 200
       THEN /\ req' = [req EXCEPT ![s] = Accepted(s, caller, c, m, route)]
            /\ started' = started + 1
       ELSE UNCHANGED <<req, started>>
  /\ UNCHANGED <<store, created>>

\* the status answered to a request body { message, files }: the
\* simulate-stream route reads files from the body, the stream route does
\* not, and neither consults it in a check
EntryStatus(caller, c, message, files, route) == PostStatus(caller, c, message)

\* a request with a body { message, files } served to its first await: as
\* Post, with the request and the status answered kept on the slot
Entry(s, caller, c, message, files, route) ==
  LET st == EntryStatus(caller, c, message, files, route) IN
  /\ req[s].pc = "idle"
  /\ started < MaxExchanges
  /\ actor' = caller
  /\ IF st = 200
       THEN /\ req' = [req EXCEPT ![s] =
                        [WithFiles(Accepted(s, caller, c, message, route), files)
                           EXCEPT !.status = st]]
            /\ started' = started + 1
       ELSE /\ req' = [req EXCEPT ![s] =
                        [IdleReq EXCEPT !.userId = caller, !.chatId = c,
                                        !.message = message, !.route = route,
                                        !.files = files, !.status = st]]
            /\ UNCHANGED started
  /\ UNCHANGED <<store, created>>

\* the response stream has ended and the handler is gone
Release(s) ==
  /\ actor' = req[s].userId
  /\ req[s].pc = "done"
  /\ req' = [req EXCEPT ![s] = IdleReq]
  /\ UNCHANGED <<store, created, started, cvars>>

\* fetch rejects, the status is not ok, there is no body (stream route) or
\* the body is not JSON (simulate-stream route)
FetchFail(s) ==
  /\ actor' = req[s].userId
  /\ req[s].pc = "fetch"
  /\ \E why \in {"reject", "status", "body"} :
       req' = [req EXCEPT ![s] = Catch(req[s], why)]
  /\ UNCHANGED <<store, created, started, cvars>>

\* the upstream answered a status that is not ok: its body is read and
\* logged, and the Error thrown carries the status (and, on the stream route,
\* the body) in its message
FetchStatus(s) ==
  /\ actor' = req[s].userId
  /\ req[s].pc = "fetch"
  /\ \E status \in ErrorStatuses, body \in ErrorBodies :
       req' = [req EXCEPT ![s] =
                 Catch([req[s] EXCEPT !.diag = [status |-> status, body |-> body]],
                       "status")]
  /\ UNCHANGED <<store, created, started, cvars>>

\* stream route: the upstream answered 200 with a body
FetchOk(s) ==
  /\ actor' = req[s].userId
  /\ req[s].pc = "fetch"
  /\ req[s].route = "stream"
  /\ \E u \in Upstreams :
       req' = [req EXCEPT ![s].pc = "reading", ![s].upstream = u, ![s].body = u]
  /\ UNCHANGED <<store, created, started, cvars>>

EmitChunks_cumulative(r, incs) ==
  LET before == SubSeq(r.fullResponse, 1,
                       Len(r.fullResponse) - Len(Concat(incs))) IN
  IF r.connected
    THEN [r EXCEPT !.events = @ \o
            [i \in 1..Len(incs) |->
               ChunkEvent(before \o Concat(SubSeq(incs, 1, i)))]]
    ELSE r

\* the chunk events of one read; an enqueue that throws (caller gone) is
\* swallowed by the catch around the line's JSON.parse
EmitChunks(r, incs) ==
  IF r.connected
    THEN [r EXCEPT !.events = @ \o [i \in 1..Len(incs) |-> ChunkEvent(incs[i])]]
    ELSE r

\* one reader.read() that returns bytes, and the loop over its lines
ReadValue(r, k) ==
  LET chunk == SubSeq(r.upstream, 1, k)
      dec == DecodeChunk(chunk)
      r1 == [r EXCEPT !.upstream = SubSeq(@, k + 1, Len(@)),
                      !.aligned = @ /\ (k = Len(r.upstream) \/ chunk[k] = "\n"),
                      !.yielded = @ \/ dec.incs # <<>>,
                      !.fullResponse = @ \o Concat(dec.incs)]
      r2 == EmitChunks(r1, dec.incs)
  IN IF dec.threw THEN Catch(r2, "parse") ELSE r2

Read(s) ==
  /\ actor' = req[s].userId
  /\ req[s].pc = "reading"
  /\ req[s].upstream # <<>>
  /\ \E k \in 1..Len(req[s].upstream) :
       req' = [req EXCEPT ![s] = ReadValue(req[s], k)]
  /\ UNCHANGED <<store, created, started, cvars>>

\* reader.read() rejects
ReadFail(s) ==
  /\ actor' = req[s].userId
  /\ req[s].pc = "reading"
  /\ req' = [req EXCEPT ![s] = Catch(req[s], "read")]
  /\ UNCHANGED <<store, created, started, cvars>>

AfterLoop_noFallback(r) == Finalize(r)

\* after the read loop: the fallback chunk when nothing was received
AfterLoop(r) ==
  IF r.fullResponse = <<>>
    THEN IF r.connected
           THEN Finalize(Enqueue([r EXCEPT !.fullResponse = FallbackNotice],
                                 ChunkEvent(FallbackNotice)))
           ELSE Catch([r EXCEPT !.fullResponse = FallbackNotice], "enqueue")
    ELSE Finalize(r)

\* reader.read() returns done
ReadDone(s) ==
  /\ actor' = req[s].userId
  /\ req[s].pc = "reading"
  /\ req[s].upstream = <<>>
  /\ req' = [req EXCEPT ![s] = AfterLoop(req[s])]
  /\ UNCHANGED <<store, created, started, cvars>>

\* simulate-stream route: the upstream answered 200 with a JSON body
SimFetchOk(s) ==
  /\ actor' = req[s].userId
  /\ req[s].pc = "fetch"
  /\ req[s].route = "sim"
  /\ \E reply \in SimReplies :
       LET fullResponse == IF reply # <<>> THEN reply ELSE NoResponseNotice IN
       req' = [req EXCEPT ![s].pc = "words", ![s].body = reply,
                          ![s].yielded = reply # <<>>,
                          ![s].fullResponse = fullResponse,
                          ![s].words = Split(fullResponse, " ")]
  /\ UNCHANGED <<store, created, started, cvars>>

\* one iteration of the word loop; after the last word, the finalisation
SimWordStep(r) ==
  LET word == Head(r.words)
      piece == IF Len(r.words) > 1 THEN word \o <<" ">> ELSE word
      r1 == Enqueue([r EXCEPT !.words = Tail(@)], ChunkEvent(piece))
  IN IF ~r.connected THEN Catch(r, "enqueue")
     ELSE IF r1.words = <<>> THEN Finalize(r1)
     ELSE r1

SimWord(s) ==
  /\ actor' = req[s].userId
  /\ req[s].pc = "words"
  /\ req' = [req EXCEPT ![s] = SimWordStep(req[s])]
  /\ UNCHANGED <<store, created, started, cvars>>

\* what follows a successful `await chat.save()` of the try block
AfterSave(r) ==
  LET r1 == [r EXCEPT !.saves = @ + 1, !.saved = r.doc] IN
  IF r.connected
    THEN [Enqueue(r1, CompleteEvent(Last(r.doc.messages), r.doc.title))
            EXCEPT !.pc = "done", !.closed = TRUE]
    ELSE Catch(r1, "enqueue")

\* a save that inserts the document when the store does not hold it
Save_upsert(s) ==
  /\ actor' = req[s].userId
  /\ req[s].pc = "save"
  /\ \/ /\ store' = [d \in DOMAIN store \cup {req[s].chatId} |->
                       IF d = req[s].chatId THEN req[s].doc ELSE store[d]]
        /\ req' = [req EXCEPT ![s] = AfterSave(req[s])]
     \/ /\ req' = [req EXCEPT ![s] = Catch(req[s], "save")]
        /\ store' = store
  /\ UNCHANGED <<created, started, cvars>>

\* the complete event enqueued ahead of the save
Save_completeFirst(s) ==
  LET r == IF req[s].connected
             THEN Enqueue(req[s], CompleteEvent(Last(req[s].doc.messages),
                                                req[s].doc.title))
             ELSE req[s]
  IN
  /\ actor' = req[s].userId
  /\ req[s].pc = "save"
  /\ \/ /\ req[s].chatId \in DOMAIN store
        /\ store' = StoreSave(req[s].chatId, req[s].doc)
        /\ req' = [req EXCEPT ![s] = [r EXCEPT !.saves = @ + 1, !.saved = r.doc,
                                               !.pc = "done", !.closed = TRUE]]
     \/ /\ req' = [req EXCEPT ![s] = Catch(r, "save")]
        /\ store' = store
  /\ UNCHANGED <<created, started, cvars>>

\* `await chat.save()` of the try block, the complete event, finally
Save(s) ==
  /\ actor' = req[s].userId
  /\ req[s].pc = "save"
  /\ \/ /\ req[s].chatId \in DOMAIN store
        /\ store' = StoreSave(req[s].chatId, req[s].doc)
        /\ req' = [req EXCEPT ![s] = AfterSave(req[s])]
     \/ /\ req' = [req EXCEPT ![s] = Catch(req[s], "save")]
        /\ store' = store
  /\ UNCHANGED <<created, started, cvars>>

\* what follows a successful `await chat.save()` of the catch block
AfterCatchSave(r) ==
  LET r1 == [r EXCEPT !.saves = @ + 1, !.saved = r.doc,
                      !.pc = "done", !.closed = TRUE] IN
  IF r.connected THEN Enqueue(r1, ErrorEvent(Last(r.doc.messages))) ELSE r1

\* `await chat.save()` of the catch block, the error event, finally; when
\* this save throws, the exception leaves start() through finally
CatchSave(s) ==
  /\ actor' = req[s].userId
  /\ req[s].pc = "catchsave"
  /\ \/ /\ req[s].chatId \in DOMAIN store
        /\ store' = StoreSave(req[s].chatId, req[s].doc)
        /\ req' = [req EXCEPT ![s] = AfterCatchSave(req[s])]
     \/ /\ req' = [req EXCEPT ![s].pc = "done", ![s].closed = TRUE]
        /\ store' = store
  /\ UNCHANGED <<created, started, cvars>>

\* the caller goes away: the response stream is cancelled
Disconnect(s) ==
  /\ actor' = req[s].userId
  /\ req[s].pc \in InFlight
  /\ req[s].connected
  /\ req' = [req EXCEPT ![s].connected = FALSE]
  /\ UNCHANGED <<store, created, started, cvars>>

(***************************************************************************)
(* POST /api/chats, GET and DELETE /api/chats/[chatId]                     *)
(***************************************************************************)

CreateStatus(caller, title) ==
  IF caller = NoUser THEN 401
  ELSE IF title = <<>> THEN 400
  ELSE 201

\* POST /api/chats: a new document with an empty message list
Create(caller, title) ==
  LET id == Cardinality(DOMAIN created) + 1 IN
  /\ id <= MaxChats
  /\ actor' = caller
  /\ IF CreateStatus(caller, title) = 201
       THEN /\ store' = store @@ (id :> [userId |-> caller, title |-> title,
                                         messages |-> <<>>])
            /\ created' = created @@ (id :> caller)
       ELSE UNCHANGED <<store, created>>
  /\ UNCHANGED <<req, started>>

GetStatus(caller, c) ==
  IF caller = NoUser THEN 401
  ELSE IF FindOwned(c, caller) = {} THEN 404
  ELSE 200

\* GET /api/chats/[chatId]: answers GetStatus, with the document on 200
Get(caller, c) ==
  /\ actor' = caller
  /\ UNCHANGED <<store, created, req, started>>

DeleteStatus(caller, c) ==
  IF caller = NoUser THEN 401
  ELSE IF FindOwned(c, caller) = {} THEN 404
  ELSE 200

\* DELETE /api/chats/[chatId]: Chat.findOneAndDelete({ _id: chatId, userId })
Delete(caller, c) ==
  /\ actor' = caller
  /\ store' = IF DeleteStatus(caller, c) = 200 THEN StoreRemove(c) ELSE store
  /\ UNCHANGED <<created, req, started>>

(***************************************************************************)
(* The server under arbitrary callers                                      *)
(***************************************************************************)

NoChatData == [loaded |-> FALSE, title |-> <<>>, messages |-> <<>>]

\* one invocation of sendMessage or editMessage: where it stands, its
\* arguments, the text assembled from chunk events, the events read so far;
\* before and storedBefore remember the lists the invocation started from,
\* sendFrom the list sendMessage was entered with; offset counts the bytes
\* of the response read so far where the response is followed byte by byte
NoCall ==
  [pc |-> "idle", op |-> "none", message |-> <<>>, isRegenerate |-> FALSE,
   assistantContent |-> <<>>, pos |-> 0, index |-> 0, before |-> <<>>,
   storedBefore |-> <<>>, outcome |-> "none", sendFrom |-> <<>>,
   offset |-> 0]

ClientIdle ==
  /\ chat = NoChatData
  /\ sending = FALSE
  /\ error = ""
  /\ call = NoCall
  /\ late = NoCall

Init ==
  /\ store = <<>>
  /\ created = <<>>
  /\ req = [s \in Slots |-> IdleReq]
  /\ actor = NoUser
  /\ started = 0
  /\ ClientIdle

ApiCreate ==
  /\ \E caller \in Callers, title \in Titles : Create(caller, title)
  /\ UNCHANGED cvars

ApiGet ==
  /\ \E caller \in Callers, c \in ChatIds : Get(caller, c)
  /\ UNCHANGED cvars

ApiDelete ==
  /\ \E caller \in Callers, c \in ChatIds : Delete(caller, c)
  /\ UNCHANGED cvars

\* one exchange at a time (slot 1): the caller serializes
ApiPost ==
  /\ started < MaxApiExchanges
  /\ \E caller \in Callers, c \in ChatIds, m \in Messages, route \in Routes :
       Post(1, caller, c, m, route)
  /\ UNCHANGED cvars

Handler(s) ==
  \/ FetchFail(s)
  \/ FetchOk(s)
  \/ SimFetchOk(s)
  \/ Read(s)
  \/ ReadFail(s)
  \/ ReadDone(s)
  \/ SimWord(s)
  \/ Save(s)
  \/ CatchSave(s)
  \/ Disconnect(s)
  \/ Release(s)

Next ==
  \/ ApiCreate
  \/ ApiGet
  \/ ApiDelete
  \/ ApiPost
  \/ \E s \in Slots : Handler(s)

Spec == Init /\ [][Next]_vars

(***************************************************************************)
(* The entry checks of the exchange routes: requests with any caller, id,  *)
(* text and attachments, the status answered kept on the slot              *)
(***************************************************************************)

ApiEntry ==
  /\ started < MaxApiExchanges
  /\ \E caller \in Callers, c \in ChatIds, m \in Messages,
        files \in Attachments, route \in Routes :
       Entry(1, caller, c, m, files, route)
  /\ UNCHANGED cvars

NextEntry ==
  \/ ApiCreate \/ ApiDelete \/ ApiEntry
  \/ \E s \in Slots :
       \/ FetchFail(s) \/ FetchOk(s) \/ Read(s) \/ ReadDone(s)
       \/ SimFetchOk(s) \/ SimWord(s)
       \/ Save(s) \/ CatchSave(s) \/ Release(s)

SpecEntry == Init /\ [][NextEntry]_vars

(***************************************************************************)
(* The page of one conversation: the useChat hook of owner A on            *)
(* conversation 1, its input box, edit boxes and regenerate button, and    *)
(* the simulate-stream route serving it                                    *)
(***************************************************************************)

\* one conversation of owner A, just created
OneChat ==
  /\ store = (1 :> [userId |-> "A", title |-> <<"N", "e", "w">>,
                    messages |-> <<>>])
  /\ created = (1 :> "A")
  /\ actor = "A"

\* the conversation the page shows and the session it runs in
PageChat == 1
PageUser == "A"
PageSlot == 1

\* texts saved from an edit box
EditContents == {<<"y", "o">>, <<" ">>}

\* messages.slice(0, -1)
DropLast(msgs) == SubSeq(msgs, 1, Len(msgs) - 1)

\* sendMessage up to its fetch, entered with the message list msgs and the
\* sending flag sendingIn: the guard on a blank message, setSending and
\* setError, the regenerate branch or the optimistic user message
SendMessage(op, message, isRegenerate, msgs, sendingIn, index) ==
  IF Trim(message) = <<>>
    THEN /\ chat' = [chat EXCEPT !.messages = msgs]
         /\ sending' = sendingIn
         /\ error' = IF op = "edit" THEN "" ELSE error
         /\ call' = [NoCall EXCEPT !.pc = "finished", !.op = op,
                                   !.message = message, !.index = index,
                                   !.isRegenerate = isRegenerate,
                                   !.before = chat.messages,
                                   !.storedBefore = store[PageChat].messages,
                                   !.sendFrom = msgs,
                                   !.outcome = "returned"]
         /\ late' = late
    ELSE /\ chat' = [chat EXCEPT !.messages =
                       IF isRegenerate THEN DropLast(msgs)
                       ELSE Append(msgs, Msg("user", Trim(message), "temp"))]
         /\ sending' = TRUE
         /\ error' = ""
         /\ call' = [NoCall EXCEPT !.pc = "fetch", !.op = op,
                                   !.message = message, !.index = index,
                                   !.isRegenerate = isRegenerate,
                                   !.before = chat.messages,
                                   !.sendFrom = msgs,
                                   !.storedBefore = store[PageChat].messages]
         /\ late' = late

\* the page accepts input: nothing is being sent and the conversation is
\* loaded
CanEdit ==
  /\ call.pc \in {"idle", "finished"}
  /\ ~sending
  /\ chat.loaded
  /\ PageChat \in DOMAIN store
  /\ started < MaxExchanges

\* ChatInput submits a text: sendMessage(message)
OnSendMessage ==
  /\ CanEdit
  /\ \E m \in Messages :
       /\ Trim(m) # <<>>
       /\ SendMessage("send", m, FALSE, chat.messages, sending, 0)
  /\ UNCHANGED svars

\* the regenerate button under the last assistant message:
\* sendMessage(lastUserMessage.content, true)
OnRegenerateResponse ==
  /\ CanEdit
  /\ chat.messages # <<>>
  /\ Last(chat.messages).role = "assistant"
  /\ LET users == {i \in 1..Len(chat.messages) : chat.messages[i].role = "user"} IN
     /\ users # {}
     /\ LET lastUser == CHOOSE i \in users : \A j \in users : j <= i IN
        SendMessage("regenerate", chat.messages[lastUser].content, FALSE,
                    chat.messages, sending, 0)
  /\ UNCHANGED svars

\* saveEdit on a user message: editMessage(messageIndex, newContent), which
\* ends in sendMessage(newContent, undefined, true)
EditMessage ==
  /\ CanEdit
  /\ \E i \in 1..Len(chat.messages), newContent \in EditContents :
       /\ chat.messages[i].role = "user"
       /\ LET updatedMessages == [chat.messages EXCEPT ![i].content = newContent]
              messagesUpToEdit == SubSeq(updatedMessages, 1, i)
          IN SendMessage("edit", newContent, TRUE, messagesUpToEdit, TRUE, i)
  /\ UNCHANGED svars

\* the catch and finally blocks of sendMessage
ClientCatch ==
  /\ chat' = [chat EXCEPT !.messages =
                IF call.isRegenerate THEN @ ELSE DropLast(@)]
  /\ error' = "Failed to send message"
  /\ sending' = FALSE
  /\ call' = [call EXCEPT !.pc = "finished", !.outcome = "threw"]
  /\ late' = late

\* the fetch of the simulate-stream route: answered, or rejected
ClientFetch ==
  /\ call.pc = "fetch"
  /\ \/ /\ Post(PageSlot, PageUser, PageChat, Trim(call.message), "sim")
        /\ IF PostStatus(PageUser, PageChat, Trim(call.message)) = 200
             THEN /\ call' = [call EXCEPT !.pc = "reading"]
                  /\ UNCHANGED <<chat, sending, error, late>>
             ELSE ClientCatch
     \/ /\ ClientCatch
        /\ UNCHANGED svars

ApplyEvent_alwaysPush(msgs, e, isRegenerate, assistantContent) ==
  CASE e.type = "userMessage" ->
         IF isRegenerate THEN msgs ELSE Append(DropLast(msgs), e.message)
    [] e.type = "chunk" ->
         Append(msgs, Msg("assistant", assistantContent, "temp"))
    [] OTHER -> Append(DropLast(msgs), e.message)

\* the message list after the handler of one event
ApplyEvent(msgs, e, isRegenerate, assistantContent) ==
  CASE e.type = "userMessage" ->
         IF isRegenerate THEN msgs ELSE Append(DropLast(msgs), e.message)
    [] e.type = "chunk" ->
         IF msgs # <<>> /\ Last(msgs).role = "assistant"
           THEN [msgs EXCEPT ![Len(msgs)].content = assistantContent]
           ELSE Append(msgs, Msg("assistant", assistantContent, "temp"))
    [] OTHER -> Append(DropLast(msgs), e.message)

\* one event read from the response and handled
ClientRead ==
  /\ call.pc = "reading"
  /\ call.pos < Len(req[PageSlot].events)
  /\ LET e == req[PageSlot].events[call.pos + 1]
         content == IF e.type = "chunk" THEN call.assistantContent \o e.content
                    ELSE call.assistantContent
     IN /\ chat' = [chat EXCEPT
                      !.messages = ApplyEvent(@, e, call.isRegenerate, content),
                      !.title = IF e.type = "complete" /\ e.chatTitle # <<>>
                                  THEN e.chatTitle ELSE @]
        /\ error' = IF e.type = "error" THEN e.error ELSE error
        /\ call' = [call EXCEPT !.pos = @ + 1, !.assistantContent = content,
                                !.outcome = IF e.type \in {"complete", "error"}
                                              THEN e.type ELSE @]
  /\ UNCHANGED <<svars, sending, late>>

\* reader.read() returns done: the finally block of sendMessage
ClientDone ==
  /\ call.pc = "reading"
  /\ req[PageSlot].pc = "done"
  /\ call.pos = Len(req[PageSlot].events)
  /\ sending' = FALSE
  /\ call' = [call EXCEPT !.pc = "finished",
                          !.outcome = IF @ = "none" THEN "closed" ELSE @]
  /\ actor' = req[PageSlot].userId
  /\ req' = [req EXCEPT ![PageSlot] = IdleReq]
  /\ UNCHANGED <<store, created, started, chat, error, late>>

InitClient ==
  /\ OneChat
  /\ started = 0
  /\ req = [s \in Slots |-> IdleReq]
  /\ chat = [loaded |-> TRUE, title |-> store[PageChat].title,
             messages |-> store[PageChat].messages]
  /\ sending = FALSE
  /\ error = ""
  /\ call = NoCall
  /\ late = NoCall

NextClient ==
  \/ OnSendMessage \/ OnRegenerateResponse \/ EditMessage
  \/ ClientFetch \/ ClientRead \/ ClientDone
  \/ \E s \in Slots :
       FetchFail(s) \/ SimFetchOk(s) \/ SimWord(s) \/ Save(s) \/ CatchSave(s)

SpecClient == InitClient /\ [][NextClient]_vars

(***************************************************************************)
(* The same page opened on a conversation that already holds one completed *)
(* exchange                                                                *)
(***************************************************************************)

\* the conversation of owner A after the exchange of " hi " answered "x y"
OneExchange ==
  /\ store = (1 :> [userId |-> "A", title |-> TitleOf(<<" ", "h", "i", " ">>),
                    messages |-> <<Msg("user", <<"h", "i">>, "server"),
                                   Msg("assistant", <<"x", " ", "y">>, "server")>>])
  /\ created = (1 :> "A")
  /\ actor = "A"

InitHistory ==
  /\ OneExchange
  /\ started = 0
  /\ req = [s \in Slots |-> IdleReq]
  /\ chat = [loaded |-> TRUE, title |-> store[PageChat].title,
             messages |-> store[PageChat].messages]
  /\ sending = FALSE
  /\ error = ""
  /\ call = NoCall
  /\ late = NoCall

SpecHistory == InitHistory /\ [][NextClient]_vars

\* the one text the user submits where a single exchange is followed
SubmitOnce == call.pc = "idle" /\ OnSendMessage

(***************************************************************************)
(* The page reading its response as bytes: the events of one exchange on   *)
(* the wire, delivered to reader.read() in pieces of any sizes             *)
(***************************************************************************)

Digits == <<"1", "2", "3", "4", "5", "6", "7", "8", "9">>

\* `data: ${JSON.stringify(event)}\n\n` for the i-th event of a response:
\* "{" stands for the text of the JSON up to some point, "}" for the rest,
\* and the digit for what tells the events of one response apart
Encode(i) == DataPrefix \o <<"{", Digits[i], "}">> \o Newline \o Newline

\* the bytes of a response that carries the given events
Wire(events) == Concat([i \in 1..Len(events) |-> Encode(i)])

\* the event a line carries: line.startsWith('data: ') and
\* JSON.parse(line.slice(6)) succeeds; 0 when the line is skipped
WireIndex(line) ==
  LET payload == SubSeq(line, Len(DataPrefix) + 1, Len(line)) IN
  IF /\ StartsWith(line, DataPrefix)
     /\ Len(payload) = 3
     /\ payload[1] = "{" /\ payload[3] = "}"
     /\ \E i \in 1..Len(Digits) : Digits[i] = payload[2]
    THEN CHOOSE i \in 1..Len(Digits) : Digits[i] = payload[2]
    ELSE 0

\* the hook's state a read loop works on
Reduced(msgs, content, title, err) ==
  [messages |-> msgs, assistantContent |-> content, title |-> title,
   error |-> err]

\* the body of `for (const line of lines)` for one line
ApplyLine(st, line, events, isRegenerate) ==
  LET i == WireIndex(line) IN
  IF i = 0 \/ i > Len(events) THEN st
  ELSE LET e == events[i]
           content == IF e.type = "chunk" THEN st.assistantContent \o e.content
                      ELSE st.assistantContent
       IN Reduced(ApplyEvent(st.messages, e, isRegenerate, content), content,
                  IF e.type = "complete" /\ e.chatTitle # <<>>
                    THEN e.chatTitle ELSE st.title,
                  IF e.type = "error" THEN e.error ELSE st.error)

RECURSIVE ApplyLines(_, _, _, _)
ApplyLines(st, lines, events, isRegenerate) ==
  IF lines = <<>> THEN st
  ELSE ApplyLines(ApplyLine(st, Head(lines), events, isRegenerate),
                  Tail(lines), events, isRegenerate)

\* one reader.read() that returns k bytes: decoded, split into lines, each
\* line handled
ClientReadBytes ==
  /\ call.pc = "reading"
  /\ LET wire == Wire(req[PageSlot].events) IN
     /\ call.offset < Len(wire)
     /\ \E k \in 1..(Len(wire) - call.offset) :
          LET chunk == SubSeq(wire, call.offset + 1, call.offset + k)
              st == ApplyLines(Reduced(chat.messages, call.assistantContent,
                                       chat.title, error),
                               Split(chunk, "\n"), req[PageSlot].events,
                               call.isRegenerate)
          IN /\ chat' = [chat EXCEPT !.messages = st.messages,
                                     !.title = st.title]
             /\ error' = st.error
             /\ call' = [call EXCEPT !.offset = @ + k,
                                     !.assistantContent = st.assistantContent]
  /\ UNCHANGED <<svars, sending, late>>

\* reader.read() returns done: the finally block of sendMessage
ClientDoneBytes ==
  /\ call.pc = "reading"
  /\ req[PageSlot].pc = "done"
  /\ call.offset = Len(Wire(req[PageSlot].events))
  /\ sending' = FALSE
  /\ call' = [call EXCEPT !.pc = "finished", !.outcome = "closed"]
  /\ UNCHANGED <<svars, chat, error, late>>

NextWire ==
  \/ SubmitOnce
  \/ ClientFetch \/ ClientReadBytes \/ ClientDoneBytes
  \/ \E s \in Slots :
       FetchFail(s) \/ SimFetchOk(s) \/ SimWord(s) \/ Save(s) \/ CatchSave(s)

SpecWire == InitClient /\ [][NextWire]_vars

(***************************************************************************)
(* The page with its window listener: a sendInitialMessage event calls     *)
(* sendMessage whenever it is dispatched.  The user submits one text and   *)
(* one event is dispatched, in either order and at any distance.           *)
(***************************************************************************)

\* the handler slot that serves the call started by the window event
LateSlot == 2

\* handleSendInitialMessage with a string: sendMessage(data), up to its fetch
OnSendInitialMessage ==
  /\ late.pc = "idle"
  /\ chat.loaded
  /\ PageChat \in DOMAIN store
  /\ started < MaxExchanges
  /\ \E m \in Messages :
       /\ Trim(m) # <<>>
       /\ chat' = [chat EXCEPT !.messages =
                     Append(@, Msg("user", Trim(m), "temp"))]
       /\ sending' = TRUE
       /\ error' = ""
       /\ late' = [NoCall EXCEPT !.pc = "fetch", !.op = "event", !.message = m,
                                 !.before = chat.messages,
                                 !.sendFrom = chat.messages,
                                 !.storedBefore = store[PageChat].messages]
  /\ UNCHANGED <<svars, call>>

\* the catch and finally blocks of that call
LateCatch ==
  /\ chat' = [chat EXCEPT !.messages = DropLast(@)]
  /\ error' = "Failed to send message"
  /\ sending' = FALSE
  /\ late' = [late EXCEPT !.pc = "finished", !.outcome = "threw"]
  /\ call' = call

\* its fetch of the simulate-stream route: answered, or rejected
LateFetch ==
  /\ late.pc = "fetch"
  /\ \/ /\ Post(LateSlot, PageUser, PageChat, Trim(late.message), "sim")
        /\ IF PostStatus(PageUser, PageChat, Trim(late.message)) = 200
             THEN /\ late' = [late EXCEPT !.pc = "reading"]
                  /\ UNCHANGED <<chat, sending, error, call>>
             ELSE LateCatch
     \/ /\ LateCatch
        /\ UNCHANGED svars

\* one event of its response read and handled
LateRead ==
  /\ late.pc = "reading"
  /\ late.pos < Len(req[LateSlot].events)
  /\ LET e == req[LateSlot].events[late.pos + 1]
         content == IF e.type = "chunk" THEN late.assistantContent \o e.content
                    ELSE late.assistantContent
     IN /\ chat' = [chat EXCEPT
                      !.messages = ApplyEvent(@, e, FALSE, content),
                      !.title = IF e.type = "complete" /\ e.chatTitle # <<>>
                                  THEN e.chatTitle ELSE @]
        /\ error' = IF e.type = "error" THEN e.error ELSE error
        /\ late' = [late EXCEPT !.pos = @ + 1, !.assistantContent = content,
                                !.outcome = IF e.type \in {"complete", "error"}
                                              THEN e.type ELSE @]
  /\ UNCHANGED <<svars, sending, call>>

\* its reader.read() returns done: the finally block
LateDone ==
  /\ late.pc = "reading"
  /\ req[LateSlot].pc = "done"
  /\ late.pos = Len(req[LateSlot].events)
  /\ sending' = FALSE
  /\ late' = [late EXCEPT !.pc = "finished",
                          !.outcome = IF @ = "none" THEN "closed" ELSE @]
  /\ actor' = req[LateSlot].userId
  /\ req' = [req EXCEPT ![LateSlot] = IdleReq]
  /\ UNCHANGED <<store, created, started, chat, error, call>>

NextGate ==
  \/ SubmitOnce
  \/ ClientFetch \/ ClientRead \/ ClientDone
  \/ OnSendInitialMessage \/ LateFetch \/ LateRead \/ LateDone
  \/ \E s \in Slots :
       FetchFail(s) \/ SimFetchOk(s) \/ SimWord(s) \/ Save(s) \/ CatchSave(s)

SpecGate == InitClient /\ [][NextGate]_vars

(***************************************************************************)
(* The decoder on its own: an accepted stream-route exchange of owner A on *)
(* an empty conversation, whose upstream answered with any body of         *)
(* DecodeInputs, delivered in reads of any sizes                           *)
(***************************************************************************)

InitDecode ==
  /\ OneChat
  /\ started = 1
  /\ \E u \in DecodeInputs :
       req = [s \in Slots |->
                IF s = 1
                  THEN [Accepted(1, "A", 1, <<" ", "h", "i", " ">>, "stream")
                          EXCEPT !.pc = "reading", !.upstream = u, !.body = u]
                  ELSE IdleReq]
  /\ ClientIdle

NextDecode ==
  \E s \in Slots : Read(s) \/ ReadDone(s) \/ Save(s) \/ CatchSave(s)

SpecDecode == InitDecode /\ [][NextDecode]_vars

(***************************************************************************)
(* Chunk emission on both routes: an accepted exchange of owner A on an    *)
(* empty conversation, on the stream route with any body of DecodeInputs   *)
(* delivered in reads of any sizes, or on the simulate-stream route        *)
(***************************************************************************)

InitChunks ==
  \/ InitDecode
  \/ /\ OneChat
     /\ started = 1
     /\ req = [s \in Slots |->
                IF s = 1 THEN Accepted(1, "A", 1, <<" ", "h", "i", " ">>, "sim")
                         ELSE IdleReq]
     /\ ClientIdle

NextChunks ==
  \E s \in Slots :
    \/ Read(s) \/ ReadDone(s)
    \/ SimFetchOk(s) \/ SimWord(s)
    \/ Save(s) \/ CatchSave(s)

SpecChunks == InitChunks /\ [][NextChunks]_vars

(***************************************************************************)
(* The context message on its own: an accepted simulate-stream exchange of *)
(* owner A on an empty conversation, with any upload of FileLists put      *)
(* through the file processor by sendMessage                               *)
(***************************************************************************)

InitFiles ==
  /\ OneChat
  /\ started = 1
  /\ \E uploads \in FileLists :
       req = [s \in Slots |->
                IF s = 1
                  THEN WithFiles(Accepted(1, "A", 1, <<" ", "h", "i", " ">>, "sim"),
                                 ProcessFiles(uploads))
                  ELSE IdleReq]
  /\ ClientIdle

NextFiles ==
  \E s \in Slots :
    \/ FetchFail(s) \/ SimFetchOk(s) \/ SimWord(s)
    \/ Save(s) \/ CatchSave(s)

SpecFiles == InitFiles /\ [][NextFiles]_vars

(***************************************************************************)
(* Two exchanges on one conversation with no caller-side serialization:    *)
(* each handler slot serves one request of owner A, on either route, at    *)
(* any time                                                                *)
(***************************************************************************)

\* the text each request carries
RaceMessage(s) == IF s = 1 THEN <<" ", "h", "i", " ">> ELSE <<"y", "o">>

RacePost ==
  /\ \E s \in Slots, route \in Routes :
       Post(s, PageUser, PageChat, RaceMessage(s), route)
  /\ UNCHANGED cvars

NextRace ==
  \/ RacePost
  \/ \E s \in Slots :
       \/ FetchFail(s) \/ FetchOk(s) \/ Read(s) \/ ReadDone(s)
       \/ SimFetchOk(s) \/ SimWord(s)
       \/ Save(s) \/ CatchSave(s)

InitRace ==
  /\ OneChat
  /\ started = 0
  /\ req = [s \in Slots |-> IdleReq]
  /\ ClientIdle

SpecRace == InitRace /\ [][NextRace]_vars

(***************************************************************************)
(* Upstream error responses: two exchanges accepted with the same message  *)
(* on the same route, both having read the same empty conversation, whose  *)
(* upstream calls are answered with any error status and body              *)
(***************************************************************************)

InitErrors ==
  /\ OneChat
  /\ started = 2
  /\ \E route \in Routes :
       req = [s \in Slots |-> Accepted(s, "A", 1, <<" ", "h", "i", " ">>, route)]
  /\ ClientIdle

NextErrors == \E s \in Slots : FetchStatus(s) \/ CatchSave(s)

SpecErrors == InitErrors /\ [][NextErrors]_vars

(***************************************************************************)
(* The title derivation on its own: the first exchange of a conversation,  *)
(* on either route, for first messages of up to MaxWords words             *)
(***************************************************************************)

\* words per first message
MaxWords == 7

WordLens == {1, 9}

Letters == <<"a", "b", "c", "d", "e", "f", "g", "h", "i", "j">>

Word(i, n) == [j \in 1..n |-> Letters[i]]

\* words i.. of the given lengths, separated by one space, by two after
\* word number gap
RECURSIVE Sentence(_, _, _)
Sentence(lens, gap, i) ==
  IF i > Len(lens) THEN <<>>
  ELSE Word(i, lens[i])
         \o (IF i = Len(lens) THEN <<>>
             ELSE IF i = gap THEN <<" ", " ">> ELSE <<" ">>)
         \o Sentence(lens, gap, i + 1)

\* first messages: with or without surrounding blanks
TitleInputs ==
  UNION {UNION {{pad \o Sentence(lens, gap, 1) \o pad :
                   pad \in {<<>>, <<" ">>}, gap \in 0..(k - 1)} :
                lens \in [1..k -> WordLens]} :
         k \in 1..MaxWords}

InitTitle ==
  /\ OneChat
  /\ started = 1
  /\ \E m \in TitleInputs : \E route \in Routes :
       req = [s \in Slots |->
                IF s = 1 THEN Accepted(1, "A", 1, m, route) ELSE IdleReq]
  /\ ClientIdle

NextTitle ==
  \E s \in Slots :
    \/ FetchOk(s) \/ Read(s) \/ ReadDone(s)
    \/ SimFetchOk(s) \/ SimWord(s)
    \/ Save(s) \/ CatchSave(s)

SpecTitle == InitTitle /\ [][NextTitle]_vars

(***************************************************************************)
(* Properties of the event stream and of the persisted conversation        *)
(***************************************************************************)

Types(events) == [i \in 1..Len(events) |-> events[i].type]

RECURSIVE ChunkContents(_)
ChunkContents(events) ==
  IF events = <<>> THEN <<>>
  ELSE IF Head(events).type = "chunk"
    THEN <<Head(events).content>> \o ChunkContents(Tail(events))
    ELSE ChunkContents(Tail(events))

RECURSIVE CountRole(_, _)
CountRole(msgs, role) ==
  IF msgs = <<>> THEN 0
  ELSE (IF Head(msgs).role = role THEN 1 ELSE 0) + CountRole(Tail(msgs), role)

\* userMessage, chunk*, then one terminal event
WellFormed(events) ==
  /\ Len(events) >= 2
  /\ events[1].type = "userMessage"
  /\ events[Len(events)].type \in {"complete", "error"}
  /\ \A i \in 2..(Len(events) - 1) : events[i].type = "chunk"

\* C1: every accepted exchange whose stream has been closed, to a caller that
\* stayed connected, emitted exactly one userMessage event first, then only
\* chunk events, then exactly one terminal event (complete or error),
\* whichever of the upstream call, the upstream read or a store write failed.
C1_OneTerminalEvent ==
  \A s \in Slots :
    (req[s].pc = "done" /\ req[s].connected) => WellFormed(req[s].events)

\* the messages an exchange added to the persisted conversation
Added(r) ==
  IF r.chatId \in DOMAIN store
    THEN SubSeq(store[r.chatId].messages, r.base + 1,
                Len(store[r.chatId].messages))
    ELSE <<>>

\* C2: when an exchange has ended (and its conversation was not deleted),
\* the persisted conversation holds exactly one assistant message added by
\* that exchange: never two, never none.
C2_OneAssistantMessage ==
  \A s \in Slots :
    (req[s].pc = "done" /\ req[s].chatId \in DOMAIN store)
      => CountRole(Added(req[s]), "assistant") = 1

\* once a conversation holds a second message its title is the one derived
\* from its first message
TitledBySecondMessage ==
  \A c \in DOMAIN store :
    Len(store[c].messages) >= 2
      => store[c].title = TitleOf(store[c].messages[1].content)

\* a write changes the title only when it takes the conversation from no
\* message to its second message
TitleWrittenOnce ==
  \A c \in DOMAIN store :
    (c \in DOMAIN store' /\ store'[c].title # store[c].title)
      => /\ store[c].messages = <<>>
         /\ Len(store'[c].messages) >= 2

\* C11: with serialized exchanges on a conversation created empty, the
\* title is overwritten exactly once, by the write of the first exchange
\* that gives the conversation its second message, be that message a reply
\* or the persisted error message; no later write changes it.
C11_TitleOnce == []TitledBySecondMessage /\ [][TitleWrittenOnce]_vars

\* C12: a request of the owner of a stored conversation is answered 400
\* exactly when its text is empty or whitespace only and it carries no
\* attachment; a blank text with an attachment is not rejected as invalid.
C12_BlankNeedsNoAttachment ==
  \A s \in Slots :
    (/\ req[s].status # 0
     /\ req[s].chatId \in DOMAIN store
     /\ store[req[s].chatId].userId = req[s].userId)
      => (req[s].status = 400
            <=> (Trim(req[s].message) = <<>> /\ req[s].files = <<>>))

\* the status the checks give in the order 401, 400, 404: the first two do
\* not depend on the store
EntryOrder ==
  \A caller \in Callers, c \in ChatIds, m \in Messages,
     files \in Attachments, route \in Routes :
    EntryStatus(caller, c, m, files, route) =
      IF caller = NoUser THEN 401
      ELSE IF \A i \in 1..Len(m) : m[i] \in Whitespace THEN 400
      ELSE IF c \notin DOMAIN store \/ store[c].userId # caller THEN 404
      ELSE 200

\* a slot that answered 401, 400 or 404 runs no handler and holds no event
RejectedIdle ==
  \A s \in Slots :
    req[s].status \in {401, 400, 404}
      => /\ req[s].pc = "idle"
         /\ req[s].events = <<>>
         /\ req[s].doc = NoDoc
         /\ req[s].status = 401 <=> req[s].userId = NoUser

\* the step that answers 401, 400 or 404 leaves the store as it was
RejectedLeavesStore ==
  \A s \in Slots :
    (req'[s] # req[s] /\ req'[s].status \in {401, 400, 404})
      => store' = store

\* C13: a request answered 401, 400 or 404 leaves the store unchanged,
\* starts no handler (so no upstream request) and emits no event; the
\* checks are applied in the order 401, 400, 404, the first two without
\* the store being consulted.
C13_RejectedNoEffect ==
  [](EntryOrder /\ RejectedIdle) /\ [][RejectedLeavesStore]_vars

\* a blank text for an id that is not stored was answered 400, not 404
C13_Witness ==
  \E s \in Slots :
    /\ req[s].status = 400
    /\ req[s].chatId \notin DOMAIN store
    /\ req[s].userId \in Owners

\* the upstream call of the exchange failed: fetch rejected, a non-ok
\* status, no body
UpstreamFailed(r) == r.cause \in {"reject", "status", "body"}

C15_WriteFailureReported ==
  \A s \in Slots :
    (req[s].pc = "done" /\ req[s].connected /\ req[s].cause = "save")
      => Last(req[s].events).type = "error"

HasComplete(events) == \E i \in 1..Len(events) : events[i].type = "complete"

\* the step that emits complete leaves the store holding the message and
\* the title the event carries
CompleteAfterWrite ==
  \A s \in Slots :
    (~HasComplete(req[s].events) /\ HasComplete(req'[s].events))
      => LET e == Last(req'[s].events)
             c == req'[s].chatId
         IN /\ c \in DOMAIN store'
            /\ Last(store'[c].messages) = e.message
            /\ store'[c].title = e.chatTitle

\* a complete event follows an acknowledged write of what it carries, and
\* none is emitted by an exchange whose write failed
CompleteWasWritten ==
  \A s \in Slots :
    HasComplete(req[s].events)
      => /\ req[s].saves = 1
         /\ req[s].cause = "none"
         /\ Last(req[s].saved.messages) = Last(req[s].events).message
         /\ req[s].saved.title = Last(req[s].events).chatTitle

\* C16: complete is emitted only after the store acknowledged the write of
\* the exchange: at that moment the store holds the assistant message and
\* the title the event carries, and an exchange whose write failed emits
\* no complete event.
C16_CompleteAfterWrite == []CompleteWasWritten /\ [][CompleteAfterWrite]_vars

\* a first exchange has emitted complete with the title it derived and
\* stored
C16_Witness ==
  \E s \in Slots :
    /\ HasComplete(req[s].events)
    /\ req[s].base = 0
    /\ req[s].chatId \in DOMAIN store
    /\ store[req[s].chatId].title = Last(req[s].events).chatTitle
    /\ Last(req[s].events).chatTitle = TitleOf(req[s].message)

\* the invocation started from a list ending in [user, assistant]
EndsUserAssistant(msgs) ==
  /\ Len(msgs) >= 2
  /\ msgs[Len(msgs) - 1].role = "user"
  /\ msgs[Len(msgs)].role = "assistant"

Roles(msgs) == [i \in 1..Len(msgs) |-> msgs[i].role]

\* C3: a regeneration started on a conversation ending in [user, assistant]
\* has removed the trailing assistant message from the page's list when its
\* exchange is about to run, and when it has completed the committed
\* conversation is the former one with its last assistant message
\* replaced: no user message and no second assistant message was added.
C3_RegenerateReplaces ==
  (/\ call.op = "regenerate"
   /\ EndsUserAssistant(call.before)
   /\ call.storedBefore = call.before)
    => /\ call.pc = "fetch" => chat.messages = DropLast(call.before)
       /\ (call.pc = "finished" /\ call.outcome = "complete") =>
            /\ Roles(store[PageChat].messages) = Roles(call.storedBefore)
            /\ DropLast(store[PageChat].messages) = DropLast(call.storedBefore)

\* C4: when editMessage(i, newContent) has completed its exchange, the
\* page's list is the former messages before index i, the user message of
\* index i with the new content, and one new assistant message; the
\* committed conversation has the new content at index i as well.
C4_EditKeepsEditedMessage ==
  (call.op = "edit" /\ call.pc = "finished" /\ call.outcome = "complete")
    => LET i == call.index
           stored == store[PageChat].messages
       IN /\ Len(chat.messages) = i + 1
          /\ SubSeq(chat.messages, 1, i - 1) = SubSeq(call.before, 1, i - 1)
          /\ chat.messages[i].role = "user"
          /\ chat.messages[i].content = call.message
          /\ chat.messages[i + 1].role = "assistant"
          /\ Len(stored) = i + 1
          /\ stored[i].role = "user"
          /\ stored[i].content = Trim(call.message)

\* the events the page has handled in the running send
Handled == SubSeq(req[PageSlot].events, 1, call.pos)

\* a send in normal mode has handled at least one event
SendReading == call.pc = "reading" /\ ~call.isRegenerate /\ call.pos >= 1

\* C18: in a send in normal mode entered with the list L, after userMessage
\* and each chunk event the page's list is L, the canonical user message
\* and one assistant message whose content is the chunks received so far,
\* concatenated; after complete it is L, the canonical user message and the
\* canonical assistant message, and the page's title is the chatTitle of
\* the event.
C18_SendReducer ==
  SendReading =>
    LET L == call.sendFrom
        n == Len(L)
        user == Handled[1].message
        last == Handled[call.pos]
    IN /\ last.type = "userMessage" => chat.messages = L \o <<user>>
       /\ last.type = "chunk" =>
            /\ Len(chat.messages) = n + 2
            /\ SubSeq(chat.messages, 1, n + 1) = L \o <<user>>
            /\ chat.messages[n + 2].role = "assistant"
            /\ chat.messages[n + 2].content = Concat(ChunkContents(Handled))
       /\ last.type = "complete" =>
            /\ chat.messages = L \o <<user, last.message>>
            /\ chat.title = last.chatTitle

\* the second send of a page has handled complete after two or more chunks
C18_Witness ==
  /\ SendReading
  /\ call.op = "send"
  /\ Len(call.sendFrom) >= 2
  /\ Handled[call.pos].type = "complete"
  /\ Len(ChunkContents(Handled)) >= 2

\* C19: in a send in normal mode entered with the list L, after an error
\* event (following userMessage and any number of chunk events) the page's
\* list is L, the canonical user message and the canonical error message,
\* and the hook's error state holds the classification of the event.
C19_ErrorKeepsUserMessage ==
  (SendReading /\ Handled[call.pos].type = "error")
    => /\ chat.messages =
            call.sendFrom \o <<Handled[1].message, Handled[call.pos].message>>
       /\ error = Handled[call.pos].error

\* C20: when the transport failed before any event was received, the send
\* has left the page's list as sendMessage was entered with it, in normal
\* and in regenerate mode, has recorded an error and has cleared the
\* sending flag.
C20_TransportFailureRollsBack ==
  (call.pc = "finished" /\ call.outcome = "threw")
    => /\ chat.messages = call.sendFrom
       /\ error # ""
       /\ ~sending

\* the messages confirmed before the running send that it keeps in the list:
\* all of the list it was entered with in normal mode, all but the entry it
\* removes in regenerate mode
Kept == IF call.isRegenerate THEN DropLast(call.sendFrom) ELSE call.sendFrom

\* C21: while the events of an exchange are handled, in send, regenerate
\* and edit flows, every message that was confirmed before the exchange and
\* kept in the list stays in its place unchanged: chunk, complete and error
\* events change only the entries behind them.
C21_ConfirmedHistoryKept ==
  call.pc = "reading"
    => /\ Len(chat.messages) >= Len(Kept)
       /\ SubSeq(chat.messages, 1, Len(Kept)) = Kept

\* a call of sendMessage is between its setSending(true) and its finally
Running(c) == c.pc \in {"fetch", "reading"}

\* C22: the page never has two exchanges in flight on its conversation, and
\* the sending flag is true for as long as a call of sendMessage runs.
C22_OneExchangeInFlight ==
  /\ ~(Running(call) /\ Running(late))
  /\ ~(req[PageSlot].pc \in InFlight /\ req[LateSlot].pc \in InFlight
         /\ req[PageSlot].chatId = req[LateSlot].chatId)
  /\ (Running(call) \/ Running(late)) => sending

\* what an exchange whose upstream answered persists when its caller stays:
\* the stored messages, the user message and the reply
Committed(r) ==
  SubSeq(r.doc.messages, 1, r.base)
    \o <<Msg("user", Trim(r.message), "server"),
         Msg("assistant", r.fullResponse, "server")>>

\* C23: an exchange whose upstream answered and whose store writes went
\* through ends with the stream closed and with the same messages persisted
\* whether or not its caller disconnected on the way: a caller that is gone
\* costs the emissions and nothing else.
C23_DisconnectOnlyDiscards ==
  \A s \in Slots :
    (req[s].pc = "done" /\ req[s].saves > 0
     /\ req[s].cause \in {"none", "enqueue"})
      => /\ req[s].closed
         /\ req[s].saved.messages = Committed(req[s])

\* what the claim has the context message say of one attachment
Described(file) ==
  IF IsTextType(file.mimeType)
    THEN FileLabel \o file.name \o ContentLabel \o file.text
    ELSE FileLabel \o file.name \o <<" ", "(">> \o file.mimeType \o <<")">>

\* C24: in a simulate-stream exchange with attachments, the content of the
\* last message sent upstream is the trimmed text followed by the block that
\* describes every attachment, a text file by its name and the text it
\* decodes to, whatever that text is, any other file by its name and media
\* type; the user message pushed on the document and echoed in the
\* userMessage event holds the trimmed text alone.
C24_ContextDescribesFiles ==
  \A s \in Slots :
    (req[s].pc # "idle" /\ req[s].route = "sim" /\ req[s].files # <<>>)
      => /\ req[s].context =
              Trim(req[s].message) \o BlockOpen
                \o Join([i \in 1..Len(req[s].files) |-> Described(req[s].files[i])],
                        <<"\n", "\n">>)
                \o BlockClose
         /\ req[s].doc.messages[req[s].base + 1].content = Trim(req[s].message)
         /\ req[s].events[1].message.content = Trim(req[s].message)

\* the upstream of exchange s answered an error status
StatusFailed(s) == req[s].cause = "status"

\* C25: two exchanges that differ only in the status and body of the
\* upstream's error response have, at the same point and after the same
\* store writes, the same event sequence and the same messages, pending and
\* persisted; the error event's classification and the persisted error text
\* are the fixed strings.
C25_DiagnosticsNotShown ==
  /\ (StatusFailed(1) /\ StatusFailed(2) /\ req[1].pc = req[2].pc
      /\ req[1].saves = req[2].saves)
       => /\ req[1].events = req[2].events
          /\ req[1].doc.messages = req[2].doc.messages
          /\ req[1].saved.messages = req[2].saved.messages
  /\ \A s \in Slots :
       (StatusFailed(s) /\ req[s].pc = "done" /\ req[s].saves > 0)
         => /\ Last(req[s].events).type = "error"
            /\ Last(req[s].events).error = ErrorClass
            /\ Last(req[s].events).message.content = ErrorText
            /\ Last(req[s].saved.messages).content = ErrorText

\* two finished exchanges whose error responses differed in status and body,
\* the body of one being text
C25_Witness ==
  /\ StatusFailed(1) /\ StatusFailed(2)
  /\ req[1].pc = "done" /\ req[2].pc = "done"
  /\ req[1].saves = 1 /\ req[2].saves = 1
  /\ req[1].diag.status # req[2].diag.status
  /\ req[1].diag.body # req[2].diag.body
  /\ req[1].diag.body # <<>>
  /\ Last(req[1].events).type = "error"

\* a message list of whole exchanges: user, assistant, user, assistant, ...
Alternates(msgs) ==
  /\ Len(msgs) % 2 = 0
  /\ \A i \in 1..Len(msgs) :
       msgs[i].role = IF i % 2 = 1 THEN "user" ELSE "assistant"

\* C26: under serialized exchanges on conversations created empty, every
\* persisted message list has even length and alternates user, assistant:
\* a user message becomes durable only together with its one reply.
C26_StoredAlternates ==
  \A c \in DOMAIN store : Alternates(store[c].messages)

\* exchanges s and t are on one conversation and both read the document
\* before either wrote it
Raced(s, t) ==
  /\ s # t
  /\ req[s].pc # "idle" /\ req[t].pc # "idle"
  /\ req[s].chatId = req[t].chatId
  /\ req[s].base = req[t].base

\* both raced exchanges ended with complete: the store holds the list one of
\* them wrote, without the other's user message and reply
OneWriterKept ==
  \A s, t \in Slots :
    (Raced(s, t) /\ req[s].pc = "done" /\ req[t].pc = "done"
     /\ HasComplete(req[s].events) /\ HasComplete(req[t].events))
      => LET stored == store[req[s].chatId].messages IN
         /\ stored \in {req[s].saved.messages, req[t].saved.messages}
         /\ Len(stored) = req[s].base + 2
         /\ req[s].saved.messages # req[t].saved.messages

\* no exchange waits for another: whatever the other slot does, a raced
\* exchange whose upstream answered and whose write went through ends with
\* complete
RacedCompletes ==
  \A s, t \in Slots :
    (Raced(s, t) /\ req[s].pc = "done" /\ req[s].cause = "none")
      => Last(req[s].events).type = "complete"

\* every acknowledged write leaves the store holding the writer's list
WriterWins ==
  \A s \in Slots :
    req'[s].saves = req[s].saves + 1
      => store'[req[s].chatId].messages = req'[s].saved.messages

Deleted == DOMAIN created \ DOMAIN store

\* every request on a deleted conversation is answered 404 to its owner
DeletedNotFound ==
  \A c \in Deleted :
    /\ GetStatus(created[c], c) = 404
    /\ DeleteStatus(created[c], c) = 404
    /\ \A m \in Messages : Trim(m) # <<>> => PostStatus(created[c], c, m) = 404

\* no step brings a deleted conversation back
StaysDeleted == \A c \in Deleted : c \notin DOMAIN store'

C29_SendingCleared == call.pc = "finished" => ~sending

\* the hook's state after the lines of the whole response, each handled once
\* and in order
WholeResponse ==
  ApplyLines(Reduced(Append(call.sendFrom,
                            Msg("user", Trim(call.message), "temp")),
                     <<>>, chat.title, ""),
             Split(Wire(req[PageSlot].events), "\n"),
             req[PageSlot].events, call.isRegenerate)

\* C30: when sendMessage has read a response to its end, the list and the
\* error state are what the events of the response give when each is
\* applied once and in order, however the bytes were split across reads.
C30_ReadsSplitAnywhere ==
  (call.pc = "finished" /\ call.outcome = "closed" /\ call.offset > 0)
    => /\ chat.messages = WholeResponse.messages
       /\ error = WholeResponse.error

\* the stream-route exchange has read its whole upstream body and has not
\* yet been told that the stream is done
AllRead(r) ==
  r.route = "stream" /\ r.pc = "reading" /\ r.upstream = <<>> /\ r.body # <<>>

\* a complete line carrying a record with a non-empty content value
ContentLine(l) ==
  /\ Len(l) > Len(DataPrefix) + 2
  /\ SubSeq(l, 1, Len(DataPrefix)) = DataPrefix
  /\ l[Len(DataPrefix) + 1] = "{"
  /\ l[Len(l)] = "}"
  /\ \A i \in (Len(DataPrefix) + 2)..(Len(l) - 1) : l[i] \in ContentChars

ContentsOf(lines) ==
  LET sel == SelectSeq(lines, ContentLine) IN
  [i \in 1..Len(sel) |-> SubSeq(sel[i], Len(DataPrefix) + 2, Len(sel[i]) - 1)]

\* the increments of a body read as a whole: the content of every content
\* line, in order
ValidIncrements(body) == ContentsOf(Split(body, "\n"))

SentinelLine == DataPrefix \o Sentinel

\* the lines that precede the first sentinel line (all lines without one)
BeforeSentinel(lines) ==
  LET at == {i \in 1..Len(lines) : lines[i] = SentinelLine} IN
  IF at = {} THEN lines
  ELSE SubSeq(lines, 1, (CHOOSE i \in at : \A j \in at : i <= j) - 1)

\* C6: whatever the sizes of the reads that delivered an upstream body, the
\* chunk events emitted and the assembled reply are the increments of the
\* body read as a whole: a line split across reads still yields its
\* increment, exactly once.
C6_PartitionIndependent ==
  \A s \in Slots :
    AllRead(req[s]) =>
      /\ ChunkContents(req[s].events) = ValidIncrements(req[s].body)
      /\ req[s].fullResponse = Concat(ValidIncrements(req[s].body))

\* a data line that is neither a content line nor the sentinel line: its
\* payload cannot be parsed, or it is a record without content
BadLine(l) ==
  /\ StartsWith(l, DataPrefix)
  /\ ~ContentLine(l)
  /\ l # SentinelLine

\* a bad line sits between two content lines
BadBetweenValid(lines) ==
  \E i, j, k \in 1..Len(lines) :
    /\ i < j /\ j < k
    /\ ContentLine(lines[i]) /\ BadLine(lines[j]) /\ ContentLine(lines[k])

\* C7: a body with an unparsable data line or a record without content
\* between content frames yields, once it is read, exactly the increments
\* of its content frames, in order, as chunk events and as the assembled
\* reply; and no parse failure ever takes an exchange to its catch block.
C7_BadFrameSkipped ==
  \A s \in Slots :
    /\ req[s].cause # "parse"
    /\ (AllRead(req[s]) /\ BadBetweenValid(Split(req[s].body, "\n"))) =>
         /\ ChunkContents(req[s].events) = ValidIncrements(req[s].body)
         /\ req[s].fullResponse = Concat(ValidIncrements(req[s].body))

\* what the line loop does guarantee: when every read ended at a line end,
\* the chunk events and the assembled reply are the increments of all the
\* content lines of the body, bad lines skipped, and no parse failure takes
\* the exchange to its catch block
LineAlignedDecode ==
  \A s \in Slots :
    /\ req[s].cause # "parse"
    /\ (AllRead(req[s]) /\ req[s].aligned) =>
         /\ ChunkContents(req[s].events) = ValidIncrements(req[s].body)
         /\ req[s].fullResponse = Concat(ValidIncrements(req[s].body))

\* C8: when every read ended at a line end, the chunk events and the
\* assembled reply hold only increments of lines that precede the first
\* sentinel line: nothing after [DONE] is emitted or assembled.
C8_SentinelTerminates ==
  \A s \in Slots :
    (AllRead(req[s]) /\ req[s].aligned) =>
      /\ ChunkContents(req[s].events)
           = ContentsOf(BeforeSentinel(Split(req[s].body, "\n")))
      /\ req[s].fullResponse
           = Concat(ContentsOf(BeforeSentinel(Split(req[s].body, "\n"))))

\* the part of the upstream body the exchange has read
Consumed(r) == SubSeq(r.body, 1, Len(r.body) - Len(r.upstream))

\* the chunk contents of the simulate-stream route after k of its words:
\* each word of the reply, followed by a space unless it is the last
WordChunks(reply, k) ==
  LET all == Split(reply, " ") IN
  [i \in 1..k |-> IF i < Len(all) THEN all[i] \o <<" ">> ELSE all[i]]

\* C17: each chunk event carries one increment and the chunk events follow
\* the arrival order: on the stream route, as long as every read ended at a
\* line end, the chunk contents are the increments of the content lines
\* read so far; on the simulate-stream route they are the words emitted so
\* far, each with its following space; and when complete has been emitted
\* the chunk contents concatenate to the content of the committed
\* assistant message, which is the one complete carries.
C17_ChunksAreIncrements ==
  \A s \in Slots :
    LET r == req[s]
        chunks == ChunkContents(r.events)
    IN /\ (r.route = "stream" /\ r.pc = "reading" /\ r.aligned)
            => chunks = ValidIncrements(Consumed(r))
       /\ (r.route = "sim" /\ r.pc \in {"words", "save", "done"}
              /\ r.cause = "none")
            => chunks = WordChunks(r.fullResponse,
                                   Len(Split(r.fullResponse, " ")) - Len(r.words))
       /\ HasComplete(r.events)
            => /\ Concat(chunks) = Last(r.events).message.content
               /\ Concat(chunks) = Last(r.saved.messages).content

\* a stream-route exchange completed after two or more chunk events
C17_Witness ==
  \E s \in Slots :
    /\ req[s].route = "stream"
    /\ HasComplete(req[s].events)
    /\ Len(ChunkContents(req[s].events)) >= 2
    /\ ChunkContents(req[s].events)[1] # ChunkContents(req[s].events)[2]

\* the first exchange of a conversation has completed
FirstCompleted(r) ==
  /\ r.pc = "done"
  /\ r.base = 0
  /\ r.events # <<>>
  /\ Last(r.events).type = "complete"

\* the maximal runs of characters other than whitespace
RECURSIVE Words(_)
Words(t) ==
  LET s == TrimLeft(t) IN
  IF s = <<>> THEN <<>>
  ELSE LET ends == {i \in 1..Len(s) : s[i] \in Whitespace}
           n == IF ends = {} THEN Len(s)
                ELSE (CHOOSE i \in ends : \A j \in ends : i <= j) - 1
       IN <<SubSeq(s, 1, n)>> \o Words(SubSeq(s, n + 1, Len(s)))

RECURSIVE SingleSpaced(_)
SingleSpaced(ws) ==
  IF ws = <<>> THEN <<>>
  ELSE IF Len(ws) = 1 THEN ws[1]
  ELSE ws[1] \o <<" ">> \o SingleSpaced(Tail(ws))

\* a text cut to the title length
Capped(t) == IF Len(t) <= 50 THEN t ELSE SubSeq(t, 1, 47) \o <<".", ".", ".">>

\* the first six words joined by single spaces, cut to the title length
SixWordTitle(message) ==
  LET ws == Words(message) IN
  Capped(SingleSpaced(SubSeq(ws, 1, Min(6, Len(ws)))))

\* the trimmed text up to its sixth space character (all of it when it has
\* fewer than six), cut to the title length
SixFieldTitle(message) ==
  LET t == Trim(message)
      spaces == {i \in 1..Len(t) : t[i] = " "}
      sixth == {i \in spaces : Cardinality({j \in spaces : j <= i}) = 6}
  IN Capped(IF sixth = {} THEN t
            ELSE SubSeq(t, 1, (CHOOSE i \in sixth : TRUE) - 1))

\* C10 as stated: the title a first exchange sets, stored and sent in the
\* complete event, is the first six words of the trimmed message joined by
\* single spaces when that has at most 50 characters, else its first 47
\* characters and "..."; it never has more than 50 characters.
C10_SixWordTitle ==
  \A s \in Slots :
    FirstCompleted(req[s]) =>
      /\ req[s].saved.title = SixWordTitle(req[s].message)
      /\ Last(req[s].events).chatTitle = SixWordTitle(req[s].message)
      /\ Len(req[s].saved.title) <= 50

\* C10 amended: the title a first exchange sets, stored and sent in the
\* complete event, is the trimmed message up to its sixth space character
\* (six fields separated by single spaces, where two adjacent spaces
\* enclose an empty field that counts as one of the six) when that has at
\* most 50 characters, else its first 47 characters and "..."; it never
\* has more than 50 characters.
C10_SixFieldTitle ==
  \A s \in Slots :
    FirstCompleted(req[s]) =>
      /\ req[s].saved.title = SixFieldTitle(req[s].message)
      /\ Last(req[s].events).chatTitle = SixFieldTitle(req[s].message)
      /\ Len(req[s].saved.title) <= 50

\* a first exchange completed whose six fields had more than 50 characters
\* and whose title was cut to 47 characters and the ellipsis
C10_Witness ==
  \E s \in Slots :
    /\ FirstCompleted(req[s])
    /\ Len(Words(req[s].message)) >= 6
    /\ Len(req[s].saved.title) = 50
    /\ SubSeq(req[s].saved.title, 48, 50) = <<".", ".", ".">>

\* every stored document belongs to the userId it was created for
OwnerKept ==
  \A c \in DOMAIN store : c \in DOMAIN created /\ store[c].userId = created[c]

\* an authenticated caller other than the creator is answered 404 by GET,
\* DELETE and the exchange endpoint (with a valid text)
ForeignNotFound ==
  \A c \in DOMAIN store : \A caller \in Owners \ {created[c]} :
    /\ GetStatus(caller, c) = 404
    /\ DeleteStatus(caller, c) = 404
    /\ \A m \in Messages : Trim(m) # <<>> => PostStatus(caller, c, m) = 404

\* a step that changes or removes a document is taken for its creator
OnlyOwnerWrites ==
  \A c \in DOMAIN store :
    (c \notin DOMAIN store' \/ store'[c] # store[c]) => actor' = created[c]

\* C5: an operation by owner B on a conversation created by owner A is
\* answered 404 although the id is right, and no step taken for B changes
\* or deletes that conversation.
C5_OwnershipIsolation ==
  [](OwnerKept /\ ForeignNotFound) /\ [][OnlyOwnerWrites]_vars

\* a conversation of A with a committed exchange is still stored after a
\* request of B on it was served
C5_Witness ==
  \E c \in DOMAIN store :
    /\ created[c] = "A"
    /\ actor = "B"
    /\ Len(store[c].messages) >= 2
    /\ DOMAIN created = {c}

\* the exchange completed and its upstream yielded no content
CompletedEmpty(r) ==
  /\ r.pc = "done"
  /\ r.events # <<>>
  /\ Last(r.events).type = "complete"
  /\ ~r.yielded

NoEmptyAssistant ==
  \A c \in DOMAIN store : \A i \in 1..Len(store[c].messages) :
    store[c].messages[i].role = "assistant" => store[c].messages[i].content # <<>>

\* the notice a route substitutes for an empty reply
NoticeOf(route) == IF route = "stream" THEN FallbackNotice ELSE NoResponseNotice

\* C9 as stated: with no content from upstream the notice is the only chunk
\* event and the content of the committed assistant message, on both routes,
\* and no committed assistant message is empty.
C9_FallbackSoleChunk ==
  /\ NoEmptyAssistant
  /\ \A s \in Slots :
       CompletedEmpty(req[s]) =>
         /\ ChunkContents(req[s].events) = <<NoticeOf(req[s].route)>>
         /\ Last(req[s].saved.messages).content = NoticeOf(req[s].route)

\* C9 amended: on the stream route the fallback notice is the only chunk
\* event; on the simulate-stream route the route's notice is emitted as one
\* chunk event per word, and the chunks concatenate to it; on both routes
\* the committed assistant message (and the one in the complete event) is
\* the notice, and no committed assistant message is empty.
C9_Fallback ==
  /\ NoEmptyAssistant
  /\ \A s \in Slots :
       CompletedEmpty(req[s]) =>
         /\ req[s].route = "stream" =>
              ChunkContents(req[s].events) = <<FallbackNotice>>
         /\ req[s].route = "sim" =>
              /\ Concat(ChunkContents(req[s].events)) = NoResponseNotice
              /\ Len(ChunkContents(req[s].events)) = Len(Split(NoResponseNotice, " "))
         /\ Last(req[s].saved.messages).content = NoticeOf(req[s].route)
         /\ Last(req[s].events).message.content = NoticeOf(req[s].route)

C9_Witness ==
  \E s \in Slots : CompletedEmpty(req[s]) /\ req[s].route = "stream"

====
